---- MODULE Spec2Model ----
(***************************************************************************)
(* ForkJoinBuilder of RD-Gen (src/src/dag_builder/fork_join_builder.py):   *)
(* configuration validation and the recursive fork-join construction of    *)
(* one DAG after another, as a state machine.                              *)
(*                                                                         *)
(* A configuration option is a set of integers: a scalar is a singleton,  *)
(* a list is the set of its values, an omitted option is the empty set.    *)
(* Probabilities are in percent (1.0 is 100).  Counts, deadlines, periods  *)
(* and utilizations that are given are positive, so that an option is      *)
(* truthy in Python exactly when it is given.  A fork depth may be 0      *)
(* (nothing in the builder rejects it); a fork width is at least 1.        *)
(* MaxNodes caps the nodes of one graph: an allocation beyond it is not    *)
(* explored.                                                               *)
(***************************************************************************)
EXTENDS Integers, Sequences, FiniteSets

\* ------------------------------------------------------------ bounds
MaxDepth == 2
MaxFork == 2
MaxSources == 3
MaxSinks == 2
MaxNodes == 10
MaxTiming == 1

\* Python's None, as returned by Util.get_option_min/max for an omitted option.
None == -1

VARIABLES
  config,                  \* self._config
  max_fork_depth,          \* self._max_fork_depth
  max_fork,                \* self._max_fork
  pc,                      \* "new", "infeasible", "ready", "sources", "sinks", "yielded"
  G_nodes,                 \* G.nodes
  G_type,                  \* G.nodes[n]["type"], "none" when the node has no tag
  G_edges,                 \* G.edges, pairs <<u, v>>
  G_indirect,              \* the edges of G whose attribute indirect is True
  node_counter,            \* node_counter[0]
  early_termination_prob,  \* the per-DAG sample of line 54
  num_sources,             \* line 93
  final_outputs,           \* line 94
  final_output,            \* lines 111, 113
  stack,                   \* the activation records of recursive_fork_join
  num_sinks,               \* line 117, None when the sink block is skipped
  forks,                   \* history: one record per executed fork (lines 69-75)
  joins,                   \* history: one record per created join (lines 81-87)
  sources,                 \* history: the nodes allocated by the source loop
  merge_node,              \* history: the merge node of line 107, None without one
  sinks                    \* history: the nodes allocated by the sink loop

vars == <<config, max_fork_depth, max_fork, pc, G_nodes, G_type, G_edges,
          G_indirect, node_counter, early_termination_prob, num_sources,
          final_outputs, final_output, stack, num_sinks, forks, joins,
          sources, merge_node, sinks>>

graphVars == <<G_nodes, G_type, G_edges, G_indirect, node_counter>>
histVars == <<forks, joins, sources, merge_node, sinks>>

\* ------------------------------------------------------------ Util
SetMin(S) == CHOOSE x \in S : \A y \in S : x <= y
SetMax(S) == CHOOSE x \in S : \A y \in S : x >= y

\* Util.get_option_min: the minimum of a list, the scalar itself, None if omitted.
GetOptionMin(opt) == IF opt = {} THEN None ELSE SetMin(opt)

\* Util.get_option_max: the maximum of a list, the scalar itself, None if omitted.
GetOptionMax(opt) == IF opt = {} THEN None ELSE SetMax(opt)

\* Util.random_choice: any element of a list, the scalar itself.
RandomChoice(opt) == opt

\* Python truthiness of a number or None.
Truthy(v) == v # None /\ v # 0

\* Python's `v or d`.
OrDefault(v, d) == IF Truthy(v) THEN v ELSE d

\* The outcomes of random.random(), in percent: a value of [0, 1).
RandomDraws == {0, 99}

\* ------------------------------------------------------------ __init__
MaxForkDepth(cfg) == GetOptionMax(cfg.fork_depth)

MaxForkWidth(cfg) == GetOptionMax(cfg.nr_fork)

\* ------------------------------------------------------------ _validate_config
SourceSinkOverBudgetAlt(cfg) ==
  OrDefault(GetOptionMin(cfg.number_of_source_nodes), 1)
    + OrDefault(GetOptionMin(cfg.number_of_sink_nodes), 1)
    >= GetOptionMax(cfg.number_of_nodes)
SourceSinkOverBudget(cfg) ==
  OrDefault(GetOptionMin(cfg.number_of_source_nodes), 1)
    + OrDefault(GetOptionMin(cfg.number_of_sink_nodes), 1)
    > GetOptionMax(cfg.number_of_nodes)

ProbOutOfBounds(cfg) ==
  LET p == GetOptionMax(cfg.early_termination_prob)
  IN  p > 100 \/ p < 0

TimingInfeasible(cfg) ==
  LET d == GetOptionMax(cfg.graph_deadline)
      t == GetOptionMax(cfg.graph_period)
      u == GetOptionMax(cfg.graph_utilization)
  IN  \/ Truthy(u) /\ (Truthy(d) \/ Truthy(t))
      \/ ~Truthy(u) /\ (~Truthy(d) \/ ~Truthy(t))

\* TRUE when _validate_config raises InfeasibleConfigError.
RaisesInfeasible(cfg) ==
  SourceSinkOverBudget(cfg) \/ ProbOutOfBounds(cfg) \/ TimingInfeasible(cfg)

\* ------------------------------------------------------------ graph helpers
InDegree(n) == Cardinality({e \in G_edges : e[2] = n})
OutDegree(n) == Cardinality({e \in G_edges : e[1] = n})
RegularEdges == G_edges \ G_indirect

Successors(S) == {e[2] : e \in {f \in G_edges : f[1] \in S}}
RECURSIVE Closure(_)
Closure(S) == LET T == S \cup Successors(S) IN IF T = S THEN S ELSE Closure(T)
\* the nodes reachable from n along one edge or more
Descendants(n) == Closure(Successors({n}))

SeqToSet(s) == {s[i] : i \in 1..Len(s)}

\* next_node_id, called k times in a row: the ids it returns.
NewIds(k) == [i \in 1..k |-> node_counter + i]

\* ------------------------------------------------------------ recursive_fork_join
Frame(entry, depth) ==
  [entry |-> entry, depth |-> depth, stage |-> "enter",
   children |-> <<>>, leaf_nodes |-> <<>>]

Top == stack[Len(stack)]

\* `return v` of the running call: to the caller's list comprehension (line 78)
\* or, for the call of line 100, to final_outputs (line 101).
ReturnTo(v) ==
  IF Len(stack) = 1
    THEN /\ stack' = <<>>
         /\ final_outputs' = Append(final_outputs, v)
    ELSE /\ stack' = [SubSeq(stack, 1, Len(stack) - 1) EXCEPT
                        ![Len(stack) - 1].leaf_nodes = Append(@, v)]
         /\ UNCHANGED final_outputs

\* line 64, left operand: early termination is allowed below the first level only.
EarlyTerminationEligibleAlt(depth) == depth <= max_fork_depth
EarlyTerminationEligible(depth) == depth < max_fork_depth

\* line 69: the values random.randint(1, self._max_fork) can return.
ForkWidthsAlt == 1..(max_fork + 1)
ForkWidths == 1..max_fork

\* lines 83-84: the edges from the collected leaves to the join node.
JoinEdgesAlt(leaf_nodes, join_node) == {<<leaf_nodes[Len(leaf_nodes)], join_node>>}
JoinEdges(leaf_nodes, join_node) == {<<leaf_nodes[i], join_node>> : i \in 1..Len(leaf_nodes)}

\* line 87: the edge from the fork entry to its join node.
IndirectEdgeAlt(entry, join_node) == <<join_node, entry>>
IndirectEdge(entry, join_node) == <<entry, join_node>>

\* lines 83-87: the edges of a join that carry indirect=True.
MarkedIndirectAlt(entry, leaf_nodes, join_node) ==
  {IndirectEdge(entry, join_node)} \cup JoinEdges(leaf_nodes, join_node)
MarkedIndirect(entry, leaf_nodes, join_node) == {IndirectEdge(entry, join_node)}

\* line 62
ReturnAtDepthZero ==
  /\ pc = "sources" /\ stack # <<>>
  /\ Top.stage = "enter"
  /\ Top.depth = 0
  /\ ReturnTo(Top.entry)
  /\ UNCHANGED <<config, max_fork_depth, max_fork, pc, graphVars,
                 early_termination_prob, num_sources, final_output, num_sinks,
                 histVars>>

\* lines 64-65
EarlyTerminate ==
  /\ pc = "sources" /\ stack # <<>>
  /\ Top.stage = "enter"
  /\ Top.depth # 0
  /\ EarlyTerminationEligible(Top.depth)
  /\ \E r \in RandomDraws : r < early_termination_prob
  /\ ReturnTo(Top.entry)
  /\ UNCHANGED <<config, max_fork_depth, max_fork, pc, graphVars,
                 early_termination_prob, num_sources, final_output, num_sinks,
                 histVars>>

\* lines 69-75
Fork ==
  /\ pc = "sources" /\ stack # <<>>
  /\ Top.stage = "enter"
  /\ Top.depth # 0
  /\ \/ ~EarlyTerminationEligible(Top.depth)
     \/ \E r \in RandomDraws : ~(r < early_termination_prob)
  /\ \E num_forks \in ForkWidths :
       LET children == NewIds(num_forks)
           kids == SeqToSet(children)
       IN  /\ Cardinality(G_nodes) + num_forks <= MaxNodes
           /\ node_counter' = node_counter + num_forks
           /\ G_nodes' = G_nodes \cup kids
           /\ G_type' = [n \in G_nodes \cup kids |->
                           IF n \in G_nodes THEN G_type[n] ELSE "none"]
           /\ G_edges' = G_edges \cup {<<Top.entry, c>> : c \in kids}
           /\ stack' = [stack EXCEPT ![Len(stack)].stage = "recurse",
                                     ![Len(stack)].children = children]
           /\ forks' = forks \cup {[entry |-> Top.entry, children |-> kids,
                                    depth |-> Top.depth]}
  /\ UNCHANGED <<config, max_fork_depth, max_fork, pc, G_indirect,
                 early_termination_prob, num_sources, final_outputs,
                 final_output, num_sinks, joins, sources, merge_node, sinks>>

\* line 78: the call for the next child of the list comprehension
RecurseChild ==
  /\ pc = "sources" /\ stack # <<>>
  /\ Top.stage = "recurse"
  /\ Len(Top.leaf_nodes) < Len(Top.children)
  /\ stack' = Append(stack, Frame(Top.children[Len(Top.leaf_nodes) + 1], Top.depth - 1))
  /\ UNCHANGED <<config, max_fork_depth, max_fork, pc, graphVars,
                 early_termination_prob, num_sources, final_outputs,
                 final_output, num_sinks, histVars>>

\* lines 81-90
Join ==
  /\ pc = "sources" /\ stack # <<>>
  /\ Top.stage = "recurse"
  /\ Len(Top.leaf_nodes) = Len(Top.children)
  /\ Cardinality(G_nodes) + 1 <= MaxNodes
  /\ LET join_node == node_counter + 1
     IN  /\ node_counter' = join_node
         /\ G_nodes' = G_nodes \cup {join_node}
         /\ G_type' = [n \in G_nodes \cup {join_node} |->
                         IF n \in G_nodes THEN G_type[n] ELSE "none"]
         /\ G_edges' = G_edges \cup JoinEdges(Top.leaf_nodes, join_node)
                               \cup {IndirectEdge(Top.entry, join_node)}
         /\ G_indirect' = G_indirect
                            \cup MarkedIndirect(Top.entry, Top.leaf_nodes, join_node)
         /\ joins' = joins \cup {[entry |-> Top.entry, join |-> join_node,
                                  leaves |-> SeqToSet(Top.leaf_nodes)]}
         /\ ReturnTo(join_node)
  /\ UNCHANGED <<config, max_fork_depth, max_fork, pc, early_termination_prob,
                 num_sources, final_output, num_sinks, forks, sources,
                 merge_node, sinks>>

\* ------------------------------------------------------------ build
\* line 93: the number of source slots of a DAG.
NumSources(cfg) == OrDefault(GetOptionMin(cfg.number_of_source_nodes), 1)

\* line 106: whether the outputs are joined into a merge node.
NeedsMergeAlt(outputs) == Len(outputs) > 2
NeedsMerge(outputs) == Len(outputs) > 1

\* lines 109-110: the edges into the merge node.
MergeEdgesAlt(outputs, merge) == {<<merge, outputs[i]>> : i \in 1..Len(outputs)}
MergeEdges(outputs, merge) == {<<outputs[i], merge>> : i \in 1..Len(outputs)}

\* line 116: the sink block runs only for a truthy option.
SinksConfigured(cfg) == cfg.number_of_sink_nodes # {}

\* line 118: the final output itself becomes the sink.
TagsFinalOutput(n) == n = 1

\* line 125: the edge to an appended sink.
SinkEdgeAlt(output, sink) == <<sink, output>>
SinkEdge(output, sink) == <<output, sink>>

\* __init__: validation (DAGBuilderBase.__init__), then lines 17-22.
Construct ==
  /\ pc = "new"
  /\ IF RaisesInfeasible(config)
       THEN /\ pc' = "infeasible"
            /\ UNCHANGED <<max_fork_depth, max_fork>>
       ELSE /\ pc' = "ready"
            /\ max_fork_depth' = MaxForkDepth(config)
            /\ max_fork' = MaxForkWidth(config)
  /\ UNCHANGED <<config, graphVars, early_termination_prob, num_sources,
                 final_outputs, final_output, stack, num_sinks, histVars>>

\* lines 51-54 and 93-94: a loop iteration starts with a fresh graph and counter.
StartDag ==
  /\ pc \in {"ready", "yielded"}
  /\ pc' = "sources"
  /\ G_nodes' = {}
  /\ G_type' = <<>>
  /\ G_edges' = {}
  /\ G_indirect' = {}
  /\ node_counter' = -1
  /\ early_termination_prob' \in RandomChoice(config.early_termination_prob)
  /\ num_sources' = NumSources(config)
  /\ final_outputs' = <<>>
  /\ final_output' = None
  /\ num_sinks' = None
  /\ forks' = {}
  /\ joins' = {}
  /\ sources' = {}
  /\ merge_node' = None
  /\ sinks' = {}
  /\ UNCHANGED <<config, max_fork_depth, max_fork, stack>>

\* lines 96-100: a source slot, up to the call of the recursive builder.
AddSource ==
  /\ pc = "sources" /\ stack = <<>>
  /\ Len(final_outputs) < num_sources
  /\ Cardinality(G_nodes) + 1 <= MaxNodes
  /\ LET source_node == node_counter + 1
     IN  /\ node_counter' = source_node
         /\ G_nodes' = G_nodes \cup {source_node}
         /\ G_type' = [n \in G_nodes \cup {source_node} |->
                         IF n \in G_nodes THEN G_type[n] ELSE "source"]
         /\ sources' = sources \cup {source_node}
         /\ stack' = <<Frame(source_node, max_fork_depth)>>
  /\ UNCHANGED <<config, max_fork_depth, max_fork, pc, G_edges, G_indirect,
                 early_termination_prob, num_sources, final_outputs,
                 final_output, num_sinks, forks, joins, merge_node, sinks>>

\* lines 106-113
Merge ==
  /\ pc = "sources" /\ stack = <<>>
  /\ Len(final_outputs) = num_sources
  /\ pc' = "sinks"
  /\ IF NeedsMerge(final_outputs)
       THEN LET merge == node_counter + 1
            IN  /\ Cardinality(G_nodes) + 1 <= MaxNodes
                /\ node_counter' = merge
                /\ G_nodes' = G_nodes \cup {merge}
                /\ G_type' = [n \in G_nodes \cup {merge} |->
                                IF n \in G_nodes THEN G_type[n] ELSE "none"]
                /\ G_edges' = G_edges \cup MergeEdges(final_outputs, merge)
                /\ final_output' = merge
                /\ merge_node' = merge
       ELSE /\ final_output' = final_outputs[1]
            /\ UNCHANGED <<G_nodes, G_type, G_edges, node_counter, merge_node>>
  /\ UNCHANGED <<config, max_fork_depth, max_fork, G_indirect,
                 early_termination_prob, num_sources, final_outputs, stack,
                 num_sinks, forks, joins, sources, sinks>>

\* lines 116-128: sink handling, then the graph is yielded.
SinkHandling ==
  /\ pc = "sinks"
  /\ pc' = "yielded"
  /\ IF SinksConfigured(config)
       THEN \E n \in RandomChoice(config.number_of_sink_nodes) :
              /\ num_sinks' = n
              /\ IF TagsFinalOutput(n)
                   THEN /\ G_type' = [G_type EXCEPT ![final_output] = "sink"]
                        /\ UNCHANGED <<G_nodes, G_edges, node_counter, sinks>>
                   ELSE LET new == SeqToSet(NewIds(n))
                        IN  /\ Cardinality(G_nodes) + n <= MaxNodes
                            /\ node_counter' = node_counter + n
                            /\ G_nodes' = G_nodes \cup new
                            /\ G_type' = [m \in G_nodes \cup new |->
                                            IF m \in G_nodes THEN G_type[m] ELSE "sink"]
                            /\ G_edges' = G_edges
                                 \cup {SinkEdge(final_output, s) : s \in new}
                            /\ sinks' = new
       ELSE UNCHANGED <<num_sinks, G_nodes, G_type, G_edges, node_counter, sinks>>
  /\ UNCHANGED <<config, max_fork_depth, max_fork, G_indirect,
                 early_termination_prob, num_sources, final_outputs,
                 final_output, stack, forks, joins, sources, merge_node>>

\* ------------------------------------------------------------ configurations
\* the value-or-range options over lo..hi: every scalar and every range
Options(lo, hi) == {a..b : a \in lo..hi, b \in lo..hi} \ {{}}

\* every scalar, and every range that ends at hi
UpperOptions(lo, hi) == {{v} : v \in lo..hi} \cup {a..hi : a \in lo..hi}

\* every scalar, and the range lo..hi
FullOptions(lo, hi) == {{v} : v \in lo..hi} \cup {lo..hi}

ProbValues == {0, 50, 100}
ProbOptions == {{p} : p \in ProbValues} \cup {ProbValues}

\* the configurations of the generation runs
BuildConfigs ==
  [fork_depth : FullOptions(0, MaxDepth),
   nr_fork : UpperOptions(1, MaxFork),
   early_termination_prob : ProbOptions,
   number_of_source_nodes : {{}} \cup FullOptions(1, MaxSources),
   number_of_sink_nodes : {{}} \cup FullOptions(1, MaxSinks),
   number_of_nodes : {{MaxSources + 1}},
   graph_deadline : {{}},
   graph_period : {{}},
   graph_utilization : {{1}}]

InitWith(cfgs) ==
  /\ config \in cfgs
  /\ max_fork_depth = None
  /\ max_fork = None
  /\ pc = "new"
  /\ G_nodes = {}
  /\ G_type = <<>>
  /\ G_edges = {}
  /\ G_indirect = {}
  /\ node_counter = -1
  /\ early_termination_prob = None
  /\ num_sources = None
  /\ final_outputs = <<>>
  /\ final_output = None
  /\ stack = <<>>
  /\ num_sinks = None
  /\ forks = {}
  /\ joins = {}
  /\ sources = {}
  /\ merge_node = None
  /\ sinks = {}

Init == InitWith(BuildConfigs)

Next ==
  \/ Construct
  \/ StartDag
  \/ AddSource
  \/ ReturnAtDepthZero
  \/ EarlyTerminate
  \/ Fork
  \/ RecurseChild
  \/ Join
  \/ Merge
  \/ SinkHandling

Spec == Init /\ [][Next]_vars

\* ------------------------------------------------------------ validation runs
ValidateProbOptions ==
  {{p} : p \in {-50, 0, 50, 100, 150}} \cup {{0, 100}, {-50, 50}, {50, 150}}

\* the configurations handed to the constructor, feasible or not
ValidateConfigs ==
  [fork_depth : {{1}},
   nr_fork : {{1}},
   early_termination_prob : ValidateProbOptions,
   number_of_source_nodes : {{}} \cup Options(1, MaxSources),
   number_of_sink_nodes : {{}} \cup Options(1, MaxSinks),
   number_of_nodes : Options(1, MaxSources + MaxSinks),
   graph_deadline : {{}} \cup Options(1, MaxTiming),
   graph_period : {{}} \cup Options(1, MaxTiming),
   graph_utilization : {{}} \cup Options(1, MaxTiming)]

InitValidate == InitWith(ValidateConfigs)

NextValidate ==
  \/ Construct
  \/ StartDag

SpecValidate == InitValidate /\ [][NextValidate]_vars

\* ------------------------------------------------------------ properties
Yielded == pc = "yielded"
Tagged(t) == {n \in G_nodes : G_type[n] = t}
Children == UNION {f.children : f \in forks}
JoinNodes == {j.join : j \in joins}
ForkOf(s) == {f \in forks : f.entry = s}
JoinOf(s) == {j \in joins : j.entry = s}

\* C1: every yielded graph is acyclic: no node is reachable from itself along
\* edges, regular or indirect.
C1_Acyclic == Yielded => \A n \in G_nodes : n \notin Descendants(n)

\* a yielded graph with two fork/join pairs, a merge node and appended sinks
C1_Witness ==
  /\ Yielded
  /\ Cardinality(joins) >= 2
  /\ merge_node # None
  /\ sinks # {}

\* C2: in every yielded graph a node tagged source has in-degree 0 and a node
\* tagged sink has out-degree 0, whether the sinks were appended or the final
\* output itself was tagged.
C2_SourceSinkDegrees ==
  Yielded =>
    /\ \A n \in Tagged("source") : InDegree(n) = 0
    /\ \A n \in Tagged("sink") : OutDegree(n) = 0

\* the sampled sink count is 1 and the tagged final output is a merge node
C2_Witness ==
  /\ Yielded
  /\ num_sinks = 1
  /\ merge_node # None
  /\ G_type[final_output] = "sink"
  /\ InDegree(final_output) >= 2
  /\ \E n \in Tagged("source") : OutDegree(n) >= 2

\* C3 as stated: the width of every fork lies between the configured minimum
\* and maximum of nr_fork.
C3_WidthWithinConfiguredRange ==
  \A f \in forks :
    Cardinality(f.children) \in SetMin(config.nr_fork)..SetMax(config.nr_fork)

\* C3 as amended: the width of every fork lies between 1 and the configured
\* maximum of nr_fork; the configured minimum is not enforced.
C3_WidthWithinOneAndMax ==
  \A f \in forks : Cardinality(f.children) \in 1..SetMax(config.nr_fork)

\* a fork with one child under a configured minimum of two
C3_Witness ==
  /\ SetMin(config.nr_fork) >= 2
  /\ \E f \in forks : Cardinality(f.children) = 1
  /\ \E f \in forks : Cardinality(f.children) = SetMax(config.nr_fork)

\* every source slot has forked into at least one child and has its join node
EverySourceForks ==
  \A s \in sources :
    /\ \E f \in ForkOf(s) : f.children # {}
    /\ JoinOf(s) # {}

\* C4 as stated: every yielded DAG has a fork at each source, for every
\* configured fork depth.
C4_EverySourceForks == Yielded => (sources # {} /\ EverySourceForks)

\* C4 as amended: every yielded DAG has a fork at each source when the maximum
\* fork depth is at least 1, for every early-termination probability.
C4_EverySourceForksFromDepthOne ==
  (Yielded /\ max_fork_depth >= 1) => (sources # {} /\ EverySourceForks)

\* early termination is certain below the first level, and two sources forked
C4_Witness ==
  /\ Yielded
  /\ max_fork_depth >= 2
  /\ early_termination_prob = 100
  /\ Cardinality(sources) >= 2
  /\ EverySourceForks

\* C5: in every yielded graph the indirect edges are exactly the edges from a
\* fork entry to the join of the same call, one per join, and no edge from a
\* child or a leaf of a fork to the join of that fork is indirect.
C5_IndirectEdges ==
  Yielded =>
    /\ Cardinality(G_indirect) = Cardinality(joins)
    /\ Cardinality(JoinNodes) = Cardinality(joins)
    /\ G_indirect = {<<j.entry, j.join>> : j \in joins}
    /\ G_indirect \subseteq G_edges
    /\ \A j \in joins :
         /\ Cardinality(ForkOf(j.entry)) = 1
         /\ \A l \in j.leaves : <<l, j.join>> \in RegularEdges
         /\ \A f \in ForkOf(j.entry) :
              \A c \in f.children : <<c, j.join>> \notin G_indirect

\* a nested fork: a join whose leaf is itself a join
C5_Witness ==
  /\ Yielded
  /\ Cardinality(joins) >= 3
  /\ \E j \in joins : j.leaves \cap JoinNodes # {}

\* the configuration of the two-source scenario
C6_Scenario ==
  /\ config.fork_depth = {1}
  /\ config.nr_fork = {2}
  /\ config.early_termination_prob = {0}
  /\ config.number_of_sink_nodes = {1}
  /\ config.number_of_source_nodes = {2}

\* what the scenario's graph has whatever the fork widths are
C6_Shape ==
  /\ Cardinality(Tagged("source")) = 2
  /\ Cardinality(joins) = 2
  /\ merge_node # None
  /\ {e \in G_edges : e[2] = merge_node} = {<<j, merge_node>> : j \in JoinNodes}
  /\ Tagged("sink") = {merge_node}
  /\ Cardinality(G_indirect) = 2

\* C6 as stated: the scenario yields 9 nodes, 8 regular and 2 indirect edges.
C6_NineNodesEightEdges ==
  (Yielded /\ C6_Scenario) =>
    /\ C6_Shape
    /\ Cardinality(G_nodes) = 9
    /\ Cardinality(Children) = 4
    /\ Cardinality(RegularEdges) = 8

\* C6 as amended: each source forks into 1 or 2 children, w in all; the graph
\* has 5 + w nodes, 2w + 2 regular edges and 2 indirect edges, the merge node
\* receives from both joins and is the only node tagged sink.
C6_NodesAndEdgesByWidth ==
  (Yielded /\ C6_Scenario) =>
    /\ C6_Shape
    /\ \A f \in forks : f.entry \in sources /\ Cardinality(f.children) \in {1, 2}
    /\ Cardinality(G_nodes) = 5 + Cardinality(Children)
    /\ Cardinality(RegularEdges) = 2 * Cardinality(Children) + 2

\* the scenario with both forks of width 2: 9 nodes, 10 regular edges
C6_Witness ==
  /\ Yielded
  /\ C6_Scenario
  /\ Cardinality(G_nodes) = 9
  /\ Cardinality(RegularEdges) = 10

\* C7: a DAG can be started with any value of the configured
\* number_of_source_nodes as its number of source slots.
C7_AnySourceCountPossible ==
  pc = "ready" =>
    \A v \in config.number_of_source_nodes :
      ENABLED (StartDag /\ num_sources' = v)

\* the conditions of infeasibility, as the claim lists them
C8_OverBudget(cfg) ==
  (IF cfg.number_of_source_nodes = {} THEN 1 ELSE SetMin(cfg.number_of_source_nodes))
    + (IF cfg.number_of_sink_nodes = {} THEN 1 ELSE SetMin(cfg.number_of_sink_nodes))
    > SetMax(cfg.number_of_nodes)
C8_ProbOutside(cfg) ==
  ~(SetMax(cfg.early_termination_prob) \in 0..100)
C8_TimingWrong(cfg) ==
  LET u == cfg.graph_utilization # {}
      d == cfg.graph_deadline # {}
      t == cfg.graph_period # {}
  IN  (u /\ (d \/ t)) \/ (~u /\ ~(d /\ t))
C8_Listed(cfg) == C8_OverBudget(cfg) \/ C8_ProbOutside(cfg) \/ C8_TimingWrong(cfg)

\* C8: the constructor fails with InfeasibleConfigError, with no graph begun,
\* exactly when one of the three listed conditions holds; otherwise it returns
\* and generation can start.
C8_InfeasibleIffListed ==
  /\ pc = "infeasible" => (C8_Listed(config) /\ G_nodes = {} /\ ~ENABLED StartDag)
  /\ pc \in {"ready", "sources"} => ~C8_Listed(config)

\* rejected for the node budget alone, with the sink count omitted
C8_Witness ==
  /\ pc = "infeasible"
  /\ config.number_of_sink_nodes = {}
  /\ C8_OverBudget(config)
  /\ ~C8_ProbOutside(config)
  /\ ~C8_TimingWrong(config)

\* C9 as stated: in every yielded graph a node not tagged source has an
\* incoming edge and a node not tagged sink has an outgoing edge.
C9_DegreesAtLeastOne ==
  Yielded =>
    /\ \A n \in G_nodes \ Tagged("source") : InDegree(n) >= 1
    /\ \A n \in G_nodes \ Tagged("sink") : OutDegree(n) >= 1

\* C9 as amended: a node not tagged source has an incoming edge unless it is
\* the lone source of a depth-0 DAG retagged sink; a node not tagged sink has
\* an outgoing edge unless it is the final output of a DAG whose
\* number_of_sink_nodes is omitted.
C9_DegreesWithExceptions ==
  Yielded =>
    /\ \A n \in G_nodes \ Tagged("source") :
         InDegree(n) = 0 =>
           /\ n \in sources /\ n = final_output
           /\ max_fork_depth = 0 /\ num_sources = 1 /\ num_sinks = 1
    /\ \A n \in G_nodes \ Tagged("sink") :
         OutDegree(n) = 0 => (n = final_output /\ config.number_of_sink_nodes = {})

\* sinks omitted: the final output is an untagged join without outgoing edge
C9_Witness ==
  /\ Yielded
  /\ config.number_of_sink_nodes = {}
  /\ final_output \in JoinNodes
  /\ G_type[final_output] = "none"
  /\ OutDegree(final_output) = 0
  /\ \E j \in joins : Cardinality(j.leaves) >= 2

\* C10: with k > 1 sources one merge node is allocated after the sources, is
\* untagged before sink handling, has one regular edge from each source's
\* output and in-degree k, and is the final output; with k = 1 there is no
\* merge node and the source's output is the final output.
C10_Merge ==
  pc \in {"sinks", "yielded"} =>
    /\ Len(final_outputs) = num_sources
    /\ Cardinality(sources) = num_sources
    /\ num_sources > 1 =>
         /\ merge_node # None
         /\ G_nodes \ (sources \cup Children \cup JoinNodes \cup sinks) = {merge_node}
         /\ pc = "sinks" => G_type[merge_node] = "none"
         /\ InDegree(merge_node) = num_sources
         /\ {e \in G_edges : e[2] = merge_node}
              = {<<final_outputs[i], merge_node>> : i \in 1..num_sources}
         /\ \A e \in G_edges : e[2] = merge_node => e \notin G_indirect
         /\ \A s \in sources :
              IF max_fork_depth >= 1
                THEN \E j \in JoinOf(s) : <<j.join, merge_node>> \in G_edges
                ELSE <<s, merge_node>> \in G_edges
         /\ final_output = merge_node
    /\ num_sources = 1 =>
         /\ merge_node = None
         /\ G_nodes \ (sources \cup Children \cup JoinNodes \cup sinks) = {}
         /\ final_output = final_outputs[1]
         /\ \A s \in sources :
              final_output = (IF max_fork_depth >= 1
                                THEN (CHOOSE j \in JoinOf(s) : TRUE).join ELSE s)

\* three sources of depth at least 1 merged, before sink handling
C10_Witness ==
  /\ pc = "sinks"
  /\ num_sources = 3
  /\ max_fork_depth >= 1
  /\ merge_node # None
  /\ InDegree(merge_node) = 3
  /\ G_type[merge_node] = "none"
====
